---- MODULE Spec2Model ----
(***************************************************************************)
(* Model of server-cpp/src/main.cpp: main() selects a host and a port from *)
(* the command line and calls listen(host, port), which writes one line to *)
(* standard output.  Strings are sequences of one-character strings, an    *)
(* int is a 32-bit two's complement integer.                               *)
(***************************************************************************)
EXTENDS Integers, Sequences, FiniteSets, TLC

VARIABLES argv, pc, host, port, out, listenArgs, exitCode, exception, bound

vars == <<argv, pc, host, port, out, listenArgs, exitCode, exception, bound>>

(***************************************************************************)
(* Bounds of the explored command lines.                                   *)
(***************************************************************************)
MaxLen == 3
MaxArgc == 4

(***************************************************************************)
(* Program constants.                                                      *)
(***************************************************************************)
DefaultHost == <<"1", "2", "7", ".", "0", ".", "0", ".", "1">>
DefaultPort == 8080
IntMax == 2147483647
IntMin == (-2147483647) - 1

Digits == <<"0", "1", "2", "3", "4", "5", "6", "7", "8", "9">>
DigitSet == {Digits[i] : i \in 1..10}
DigitVal(c) == (CHOOSE i \in 1..10 : Digits[i] = c) - 1
\* std::isspace in the "C" locale (the vertical tab has no TLA+ escape)
Space == {" ", "\t", "\n", "\f", "\r"}

(***************************************************************************)
(* The command lines explored.                                             *)
(***************************************************************************)
Alphabet == {" ", "-", "+", "0", "7", "x"}
StringsUpTo(n) == UNION {[1..k -> Alphabet] : k \in 0..n}
PortSamples ==
    { <<"8", "0", "8", "0">>,
      <<"6", "5", "5", "3", "5">>,
      <<"6", "5", "5", "3", "6">>,
      <<"0", "0", "0", "0", "0", "0", "0", "0", "0", "0", "0", "9">>,
      <<"2", "1", "4", "7", "4", "8", "3", "6", "4", "7">>,
      <<"2", "1", "4", "7", "4", "8", "3", "6", "4", "8">>,
      <<"-", "2", "1", "4", "7", "4", "8", "3", "6", "4", "8">>,
      <<"-", "2", "1", "4", "7", "4", "8", "3", "6", "4", "9">>,
      <<"9", "9", "9", "9", "9", "9", "9", "9", "9", "9", "9">>,
      <<"2", "1", "4", "7", "4", "8", "3", "6", "4", "7", "x">> }
PortArgs == StringsUpTo(MaxLen) \cup PortSamples
Program == <<"s">>
HostArgs == {<<>>, <<"h">>, <<"0", ".", "0">>}
ExtraArgs == {<<>>, <<"9">>}
ExtraTails == UNION {[1..k -> ExtraArgs] : k \in 0..(MaxArgc - 3)}
ArgVectors ==
    {<<Program>>}
    \cup {<<Program, h>> : h \in HostArgs}
    \cup {<<Program, h, p>> \o e : h \in HostArgs, p \in PortArgs, e \in ExtraTails}

argc == Len(argv)

(***************************************************************************)
(* std::stoi(str): strtol(str, &end, 10) followed by the checks of         *)
(* __gnu_cxx::__stoa.  The magnitude is accumulated as a non-positive      *)
(* number so that INT_MIN is representable; `over` records a magnitude     *)
(* above 2^31.                                                             *)
(***************************************************************************)
RECURSIVE SkipSpace(_)
SkipSpace(s) ==
    IF s # <<>> /\ Head(s) \in Space THEN SkipSpace(Tail(s)) ELSE s

RECURSIVE Accumulate(_, _, _, _)
Accumulate(s, acc, over, any) ==
    IF s = <<>> \/ Head(s) \notin DigitSet
    THEN [acc |-> acc, over |-> over, any |-> any]
    ELSE LET d == DigitVal(Head(s)) IN
         IF over \/ acc < (IntMin + d + 9) \div 10
         THEN Accumulate(Tail(s), acc, TRUE, TRUE)
         ELSE Accumulate(Tail(s), acc * 10 - d, FALSE, TRUE)

Stoi(str) ==
    LET s   == SkipSpace(str)
        sgn == s # <<>> /\ Head(s) \in {"-", "+"}
        neg == s # <<>> /\ Head(s) = "-"
        r   == Accumulate(IF sgn THEN Tail(s) ELSE s, 0, FALSE, FALSE)
    IN  IF ~r.any THEN [ok |-> FALSE, err |-> "invalid_argument", val |-> 0]
        ELSE IF r.over \/ (~neg /\ r.acc = IntMin)
             THEN [ok |-> FALSE, err |-> "out_of_range", val |-> 0]
        ELSE [ok |-> TRUE, err |-> "none", val |-> IF neg THEN r.acc ELSE -r.acc]

(***************************************************************************)
(* std::ostream << int: decimal, '-' for negatives, no padding.            *)
(***************************************************************************)
RECURSIVE FormatNeg(_)
FormatNeg(n) ==
    LET d    == (10 - (n % 10)) % 10
        rest == (n + d) \div 10
    IN  IF rest = 0 THEN <<Digits[d + 1]>>
        ELSE FormatNeg(rest) \o <<Digits[d + 1]>>

\* mutation: the sign is not printed
FormatInt_NoSign(n) == FormatNeg(IF n < 0 THEN n ELSE -n)

FormatInt(n) == IF n < 0 THEN <<"-">> \o FormatNeg(n) ELSE FormatNeg(-n)

ListeningPrefix ==
    <<"L", "i", "s", "t", "e", "n", "i", "n", "g", " ", "o", "n", " ">>

ListenMessage(h, p) == ListeningPrefix \o h \o <<":">> \o FormatInt(p) \o <<"\n">>

(***************************************************************************)
(* Process entry: host and port hold their defaults, nothing is written,   *)
(* no socket is bound.                                                     *)
(***************************************************************************)
Init ==
    /\ argv \in ArgVectors
    /\ pc = "host"
    /\ host = DefaultHost
    /\ port = DefaultPort
    /\ out = <<>>
    /\ listenArgs = <<>>
    /\ exitCode = -1
    /\ exception = "none"
    /\ bound = FALSE

\* mutation: the host is taken only when a port is given too
HostArg_OffByOne ==
    /\ pc = "host"
    /\ host' = IF argc >= 3 THEN argv[2] ELSE host
    /\ pc' = "port"
    /\ UNCHANGED <<argv, port, out, listenArgs, exitCode, exception, bound>>

\* if (argc >= 2) host = std::string(argv[1]);
HostArg ==
    /\ pc = "host"
    /\ host' = IF argc >= 2 THEN argv[2] ELSE host
    /\ pc' = "port"
    /\ UNCHANGED <<argv, port, out, listenArgs, exitCode, exception, bound>>

\* if (argc >= 3) port = std::stoi(argv[2]);
PortArg ==
    /\ pc = "port"
    /\ argc >= 3 => Stoi(argv[3]).ok
    /\ port' = IF argc >= 3 THEN Stoi(argv[3]).val ELSE port
    /\ pc' = "listen"
    /\ UNCHANGED <<argv, host, out, listenArgs, exitCode, exception, bound>>

\* std::stoi throws, nothing catches: std::terminate
PortArgThrows ==
    /\ pc = "port"
    /\ argc >= 3
    /\ ~Stoi(argv[3]).ok
    /\ exception' = Stoi(argv[3]).err
    /\ pc' = "terminated"
    /\ UNCHANGED <<argv, host, port, out, listenArgs, exitCode, bound>>

\* listen(host, port): prints the line and returns; no socket is created
Listen ==
    /\ pc = "listen"
    /\ listenArgs' = Append(listenArgs, [host |-> host, port |-> port])
    /\ out' = out \o ListenMessage(host, port)
    /\ pc' = "return"
    /\ UNCHANGED <<argv, host, port, exitCode, exception, bound>>

\* return 0;
Return ==
    /\ pc = "return"
    /\ exitCode' = 0
    /\ pc' = "done"
    /\ UNCHANGED <<argv, host, port, out, listenArgs, exception, bound>>

Next == HostArg \/ PortArg \/ PortArgThrows \/ Listen \/ Return

Spec == Init /\ [][Next]_vars

\* a sequential program: the next statement always runs
FairSpec == Spec /\ WF_vars(Next)

TypeOK ==
    /\ argv \in ArgVectors
    /\ pc \in {"host", "port", "listen", "return", "done", "terminated"}
    /\ port \in IntMin..IntMax
    /\ exitCode \in {-1, 0}
    /\ exception \in {"none", "invalid_argument", "out_of_range"}
    /\ bound \in BOOLEAN

(***************************************************************************)
(* Reading of a decimal numeral by place value, used to state the claims   *)
(* independently of the digit-by-digit accumulation of Stoi.               *)
(***************************************************************************)
RECURSIVE Pow10(_)
Pow10(k) == IF k = 0 THEN 1 ELSE 10 * Pow10(k - 1)

FirstNonSpace(s) ==
    CHOOSE i \in 1..(Len(s) + 1) :
        /\ \A j \in 1..(i - 1) : s[j] \in Space
        /\ i <= Len(s) => s[i] \notin Space

\* first index at or after `from` that holds no digit
DigitsEnd(s, from) ==
    CHOOSE i \in from..(Len(s) + 1) :
        /\ \A j \in from..(i - 1) : s[j] \in DigitSet
        /\ i <= Len(s) => s[i] \notin DigitSet

RECURSIVE PlaceSum(_, _, _, _)
PlaceSum(s, k, last, sign) ==
    IF k > last THEN 0
    ELSE (IF s[k] = "0" THEN 0 ELSE sign * DigitVal(s[k]) * Pow10(last - k))
         + PlaceSum(s, k + 1, last, sign)

\* the integer a string starts with: blanks, an optional sign, digits
IntegerValue(s) ==
    LET i    == FirstNonSpace(s)
        sgn  == i <= Len(s) /\ s[i] \in {"-", "+"}
        from == IF sgn THEN i + 1 ELSE i
        to   == DigitsEnd(s, from)
    IN  PlaceSum(s, from, to - 1, IF sgn /\ s[i] = "-" THEN -1 ELSE 1)

HasInteger(s) ==
    LET i    == FirstNonSpace(s)
        sgn  == i <= Len(s) /\ s[i] \in {"-", "+"}
        from == IF sgn THEN i + 1 ELSE i
    IN  from <= Len(s) /\ s[from] \in DigitSet

\* a numeral as a stream prints it: no blanks, no '+', no leading zero
Canonical(s) ==
    LET from == IF s # <<>> /\ s[1] = "-" THEN 2 ELSE 1
    IN  /\ from <= Len(s)
        /\ \A j \in from..Len(s) : s[j] \in DigitSet
        /\ s[from] = "0" => Len(s) = 1

SelectedHost == IF argc >= 2 THEN argv[2] ELSE DefaultHost

----
\* C4: the host and port passed to listen are ("127.0.0.1", 8080) without
\* arguments, (first argument, 8080) with one argument, and (first argument,
\* integer value of the second argument) with two or more.
C4_HostPortPassed ==
    \A i \in DOMAIN listenArgs :
        /\ listenArgs[i].host = SelectedHost
        /\ argc < 3 => listenArgs[i].port = 8080
        /\ argc >= 3 => /\ HasInteger(argv[3])
                        /\ listenArgs[i].port = IntegerValue(argv[3])

C4_Witness ==
    /\ listenArgs # <<>>
    /\ argc >= 3
    /\ listenArgs[1].port < 0
    /\ listenArgs[1].host # DefaultHost

\* C3: a "Listening on ..." line is written only once a bind has succeeded.
C3_ListeningOnlyAfterBind == out # <<>> => bound

\* C9: the port listen proceeds with is in 0..65535; for a port argument
\* outside that range no "Listening on host:port" line is written.
C9_PortInRange ==
    (listenArgs # <<>> \/ out # <<>>) => port \in 0..65535

\* C10: when the port argument, if present, parses as an integer, main calls
\* listen exactly once, writes exactly the line "Listening on <host>:<port>"
\* for the host and port it selected, binds nothing, ignores the arguments
\* after the second, and terminates returning 0.
PortParses == argc >= 3 => Stoi(argv[3]).ok

MessageCarries(h, p) ==
    LET n   == Len(ListeningPrefix) + Len(h)
        num == SubSeq(out, n + 2, Len(out) - 1)
    IN  /\ Len(out) >= n + 3
        /\ SubSeq(out, 1, Len(ListeningPrefix)) = ListeningPrefix
        /\ SubSeq(out, Len(ListeningPrefix) + 1, n) = h
        /\ out[n + 1] = ":"
        /\ out[Len(out)] = "\n"
        /\ Canonical(num)
        /\ IntegerValue(num) = p

RunResult ==
    /\ Len(listenArgs) = 1
    /\ listenArgs[1].host = SelectedHost
    /\ listenArgs[1].port = (IF argc >= 3 THEN IntegerValue(argv[3]) ELSE 8080)
    /\ MessageCarries(listenArgs[1].host, listenArgs[1].port)
    /\ exitCode = 0
    /\ exception = "none"
    /\ ~bound

C10_MainRun ==
    /\ [](PortParses => /\ pc # "terminated"
                        /\ Len(listenArgs) <= 1
                        /\ (pc = "done" => RunResult))
    /\ (PortParses ~> pc = "done")

C10_Witness ==
    /\ pc = "done"
    /\ argc >= 4
    /\ argv[4] # <<>>
    /\ port > 65535
====
